---------------------------- MODULE Spec2Model ----------------------------
(***************************************************************************)
(* Model of the PDF text-extraction and diagnosis pipeline:                *)
(*   utils/pdf_processor.py   extract_text_from_pdf, its direct tier       *)
(*                            (try_direct_text_extraction) and its OCR     *)
(*                            tiers (extract_text_with_enhanced_ocr)       *)
(*   utils/pdf_diagnostic.py  analyze_pdf                                  *)
(* and of the session of the app that calls them:                          *)
(*   app.py                   the session state, the widgets' handlers     *)
(*                                                                         *)
(* A text is a sequence of one-character strings; the page header that an  *)
(* f-string formats is a short sequence of tokens.  What the libraries     *)
(* (PyMuPDF, pdfplumber, PyPDF2, pdf2image, pytesseract, the file system)  *)
(* answer is the environment's choice, drawn at the step that asks.        *)
(***************************************************************************)
EXTENDS Naturals, Sequences, FiniteSets, TLC

\* ------------------------------------------------------------------ bounds

\* Largest number of pages of a document.
MaxPages == 2

\* Largest number of pages of a document whose OCR attempts are observed.
MaxOcrPages == 1

\* Largest size, in bytes, of an upload as os.path.getsize reports it.
MaxFileSize == 1

\* Largest number of prompts the chat accepts before it is cleared.
MaxPrompts == 2

\* ------------------------------------------------------------------- texts

\* The characters str.strip() removes.
Whitespace == {" ", "\n"}

RECURSIVE LStrip(_)
\* str.lstrip(): drop the leading whitespace.
LStrip(s) ==
    IF s = <<>> THEN <<>>
    ELSE IF Head(s) \in Whitespace THEN LStrip(Tail(s)) ELSE s

RECURSIVE RStrip(_)
\* str.rstrip(): drop the trailing whitespace.
RStrip(s) ==
    IF s = <<>> THEN <<>>
    ELSE IF s[Len(s)] \in Whitespace THEN RStrip(SubSeq(s, 1, Len(s) - 1)) ELSE s

\* str.strip()
Strip(s) == RStrip(LStrip(s))

\* Python truth of `not text.strip()`.
IsBlank(s) == Strip(s) = <<>>

\* Python truth of `page_text and page_text.strip()` (None and "" are both
\* falsy and both modelled as the empty sequence).
HasText(s) == s # <<>> /\ Strip(s) # <<>>

\* f"--- Page {i+1} ---\n" for the 0-based loop index i.
PageHeader(i) == <<"--- Page ", ToString(i + 1), " ---", "\n">>

\* f"--- Page {i+1} ---\n{page_text}\n\n"
PageSection(i, page_text) == PageHeader(i) \o page_text \o <<"\n", "\n">>

\* ------------------------------------------------------------- environment

\* What one page yields to a direct-extraction backend.
PageTexts == {<<>>, <<" ">>, <<"a">>}

\* What pytesseract.image_to_string yields for one attempt on one page: a
\* page without recognizable text yields whitespace, and two texts may be
\* equally long once stripped.
OcrTexts == {<<" ">>, <<"a">>, <<"a", " ">>, <<"a", "b">>}

\* A library call either raises or returns a text.
Raised == [raised |-> TRUE, text |-> <<>>]
Returned(t) == [raised |-> FALSE, text |-> t]
DirectOutcomes == {Raised} \cup {Returned(t) : t \in PageTexts}
OcrOutcomes == {Raised} \cup {Returned(t) : t \in OcrTexts}

\* The direct-extraction backends, in the order the code tries them.
Backends == <<"PyMuPDF", "pdfplumber", "PyPDF2">>
NumBackends == Len(Backends)

\* strategies (original image, preprocessed image) and ocr_configs.
Strategies == <<"original", "preprocessed">>
OcrConfigs == <<"--oem 3 --psm 6", "--oem 3 --psm 4", "--oem 3 --psm 8", "--oem 1 --psm 6">>

\* The dpi arguments of the OCR tiers and of the reduced fallback.
StandardDpi == 300
HighDpi == 400
FallbackDpi == 200

\* Causes str(e) of an exception analyze_pdf catches.
Causes == {"broken document", "bad xref"}

\* ------------------------------------------------------------------- state

VARIABLES
    pc,            \* position of the running call
    call,          \* "none", "extract", "analyze" or "ocr": the function called
    nPages,        \* the document: its number of pages
    tmp_created,   \* this call created its temporary file
    tmp_exists,    \* the temporary file exists on disk
    exc,           \* "none", or the exception that left the call
    returned,      \* the call returned a value to its caller
    text,          \* extract_text_from_pdf: text
    methods_used,  \* extract_text_from_pdf: methods_used
    direct_text,   \* try_direct_text_extraction: text
    methods,       \* try_direct_text_extraction: methods
    backend,       \* try_direct_text_extraction: index of the current backend
    i,             \* the page loop's 0-based index
    ocr_text,      \* extract_text_with_enhanced_ocr: text
    dpi,           \* extract_text_with_enhanced_ocr: dpi
    raster_dpi,    \* the dpi of the last convert_from_path that returned images
    page_text,     \* extract_text_with_enhanced_ocr: page_text
    strategy_idx,  \* extract_text_with_enhanced_ocr: 1-based index in strategies
    config_idx,    \* extract_text_with_enhanced_ocr: 1-based index in ocr_configs
    results,       \* analyze_pdf: results
    invoked,       \* history: the backends and tiers invoked, in order
    produced,      \* history: the text each backend or tier added
    failed,        \* history: the backends and tiers in which a call raised
    inspected,     \* history: what analyze_pdf's scan found on each page
    yielded,       \* history: the pages for which a library call returned text
    attempts,      \* history: the outcomes of the current page's OCR attempts
    processed,           \* st.session_state.processed
    chat_history,        \* st.session_state.chat_history
    conversation_chain,  \* st.session_state.conversation_chain ("None": None)
    vector_store,        \* st.session_state.vector_store ("None": None)
    ocr_used,            \* st.session_state.ocr_used
    pdf_analysis,        \* st.session_state.pdf_analysis (<<>>: None)
    sample_images,       \* st.session_state.sample_images
    memory,              \* conversation_chain.memory: the exchanges it holds
    uploaded_file        \* the file uploader holds a file

\* The variables of the extraction and diagnosis functions.
pdfVars == <<pc, call, nPages, tmp_created, tmp_exists, exc, returned, text,
             methods_used, direct_text, methods, backend, i, ocr_text, dpi,
             raster_dpi, page_text, strategy_idx, config_idx, results, invoked,
             produced, failed, inspected, yielded, attempts>>

\* The session state of the app, the chain's memory and the upload widget.
appVars == <<processed, chat_history, conversation_chain, vector_store, ocr_used,
             pdf_analysis, sample_images, memory, uploaded_file>>

vars == <<pdfVars, appVars>>

\* The variables of each function's frame, and the history.
extractVars == <<text, methods_used>>
directVars == <<direct_text, methods, backend>>
ocrVars == <<ocr_text, dpi, raster_dpi, page_text, strategy_idx, config_idx>>
fileVars == <<tmp_created, tmp_exists>>
histVars == <<invoked, produced, failed, inspected>>

\* The names under which the history records the backends and tiers.
Sources == {Backends[b] : b \in 1..NumBackends} \cup {"OCR", "High-DPI OCR", "Multi-language OCR"}

\* The history of a library call on the page of 0-based index idx, made
\* for the backend or tier `name`: the page is noted with its 1-based number
\* when the call returned text that is not blank.
Noted(y, name, idx, out) ==
    IF ~out.raised /\ ~IsBlank(out.text)
    THEN y \cup {[source |-> name, page |-> idx + 1]}
    ELSE y

\* analyze_pdf: the results dict as constructed.
InitialResults ==
    [has_text |-> FALSE, has_images |-> FALSE, page_count |-> 0,
     file_size |-> 0, is_encrypted |-> FALSE, analysis |-> ""]

Init ==
    /\ pc = "idle"
    /\ call = "none"
    /\ nPages \in 0..MaxPages
    /\ tmp_created = FALSE
    /\ tmp_exists = FALSE
    /\ exc = "none"
    /\ returned = FALSE
    /\ text = <<>>
    /\ methods_used = <<>>
    /\ direct_text = <<>>
    /\ methods = <<>>
    /\ backend = 1
    /\ i = 0
    /\ ocr_text = <<>>
    /\ dpi = 0
    /\ raster_dpi = 0
    /\ page_text = <<>>
    /\ strategy_idx = 1
    /\ config_idx = 1
    /\ results = InitialResults
    /\ invoked = <<>>
    /\ produced = [s \in Sources |-> <<>>]
    /\ failed = {}
    /\ inspected = <<>>
    /\ yielded = {}
    /\ attempts = <<>>
    /\ processed = FALSE
    /\ chat_history = <<>>
    /\ conversation_chain = "None"
    /\ vector_store = "None"
    /\ ocr_used = FALSE
    /\ pdf_analysis = <<>>
    /\ sample_images = <<>>
    /\ memory = 0
    /\ uploaded_file = FALSE

\* ------------------------------------------------- the temporary upload

\* with tempfile.NamedTemporaryFile(delete=False, suffix='.pdf') as tmp_file:
\*     tmp_file.write(pdf_file.read())
\* The statement stands before the try: what it raises leaves the call.  A
\* file created with delete=False stays on disk when the with block is left.
SaveOutcomes == {"ok", "create_fails", "read_fails", "write_fails"}

SaveUpload(outcome, next) ==
    /\ tmp_created' = (outcome # "create_fails")
    /\ tmp_exists' = (outcome # "create_fails")
    /\ IF outcome = "ok"
       THEN pc' = next /\ exc' = exc
       ELSE pc' = "raised" /\ exc' = outcome

\* finally: if os.path.exists(tmp_path): os.remove(tmp_path)
\* The finally clause has no handler of its own: what os.remove raises
\* leaves the call, and the return statement after it is not reached.
RemoveOutcomes == {"removed", "remove_fails"}

RemoveTemp(outcome, next) ==
    IF ~tmp_exists
    THEN pc' = next /\ UNCHANGED <<tmp_exists, exc>>
    ELSE IF outcome = "removed"
         THEN pc' = next /\ tmp_exists' = FALSE /\ exc' = exc
         ELSE pc' = "raised" /\ exc' = outcome /\ tmp_exists' = tmp_exists

\* ------------------------------------------- try_direct_text_extraction

\* BackendGuard without its test: every backend is tried.
BackendGuardAlways(b, t) == TRUE

\* `if not text.strip():` before pdfplumber and PyPDF2; PyMuPDF is tried
\* unconditionally.
BackendGuard(b, t) == b = 1 \/ IsBlank(t)

\* One page of a backend's loop:
\*     if page_text and page_text.strip():
\*         text += page_text + "\n"
\*         methods.append(<name>)
DirectAdd(t, page) == IF HasText(page) THEN t \o page \o <<"\n">> ELSE t
DirectRecord(m, name, page) == IF HasText(page) THEN Append(m, name) ELSE m

\* Leave backend b: on to the next backend's guard, or to the return.
LeaveBackend ==
    IF backend = NumBackends
    THEN pc' = "direct_return" /\ backend' = backend
    ELSE pc' = "direct_guard" /\ backend' = backend + 1

\* extract_text_from_pdf(pdf_file) is called: the upload is saved, then
\* text = "" and methods_used = [], and try_direct_text_extraction starts
\* with text = "" and methods = [].
CallExtract ==
    /\ pc = "idle"
    /\ call' = "extract"
    /\ \E outcome \in SaveOutcomes : SaveUpload(outcome, "direct_guard")
    /\ text' = <<>> /\ methods_used' = <<>>
    /\ direct_text' = <<>> /\ methods' = <<>> /\ backend' = 1
    /\ UNCHANGED <<nPages, returned, i, ocrVars, results, histVars, attempts,
                   yielded, appVars>>

\* A backend whose guard holds is entered.
DirectEnter ==
    /\ pc = "direct_guard"
    /\ BackendGuard(backend, direct_text)
    /\ pc' = "direct_open"
    /\ invoked' = Append(invoked, Backends[backend])
    /\ UNCHANGED <<call, nPages, fileVars, exc, returned, extractVars, directVars,
                   i, ocrVars, results, produced, failed, attempts, inspected,
                   yielded, appVars>>

\* A backend whose guard fails is skipped.
DirectSkip ==
    /\ pc = "direct_guard"
    /\ ~BackendGuard(backend, direct_text)
    /\ LeaveBackend
    /\ UNCHANGED <<call, nPages, fileVars, exc, returned, extractVars, direct_text,
                   methods, i, ocrVars, results, histVars, attempts,
                   yielded, appVars>>

\* fitz.open / pdfplumber.open / PyPDF2.PdfReader: the document opens, or the
\* call raises into the backend's bare `except: pass`.
DirectOpen ==
    /\ pc = "direct_open"
    /\ \E ok \in BOOLEAN :
        IF ok
        THEN pc' = "direct_page" /\ i' = 0 /\ UNCHANGED <<backend, failed>>
        ELSE LeaveBackend /\ failed' = failed \cup {Backends[backend]} /\ i' = i
    /\ UNCHANGED <<call, nPages, fileVars, exc, returned, extractVars, direct_text,
                   methods, ocrVars, results, invoked, produced, attempts,
                   inspected, yielded, appVars>>

\* One iteration of the page loop: the page's text is added, or the call
\* raises into `except: pass`, which keeps what earlier pages added.
DirectPage ==
    /\ pc = "direct_page"
    /\ i < nPages
    /\ \E out \in DirectOutcomes :
        IF out.raised
        THEN /\ LeaveBackend
             /\ failed' = failed \cup {Backends[backend]}
             /\ UNCHANGED <<direct_text, methods, i, produced, yielded>>
        ELSE /\ direct_text' = DirectAdd(direct_text, out.text)
             /\ yielded' = Noted(yielded, Backends[backend], i, out)
             /\ methods' = DirectRecord(methods, Backends[backend], out.text)
             /\ produced' = [produced EXCEPT
                              ![Backends[backend]] = DirectAdd(@, out.text)]
             /\ i' = i + 1
             /\ UNCHANGED <<pc, backend, failed>>
    /\ UNCHANGED <<call, nPages, fileVars, exc, returned, extractVars, ocrVars,
                   results, invoked, attempts, inspected, appVars>>

\* The page loop is exhausted.
DirectPagesDone ==
    /\ pc = "direct_page"
    /\ i >= nPages
    /\ LeaveBackend
    /\ UNCHANGED <<call, nPages, fileVars, exc, returned, extractVars, direct_text,
                   methods, i, ocrVars, results, histVars, attempts,
                   yielded, appVars>>

\* return text, methods; then in the caller
\*     text, direct_methods = try_direct_text_extraction(tmp_path)
\*     methods_used.extend(direct_methods)
DirectReturn ==
    /\ pc = "direct_return"
    /\ text' = direct_text
    /\ methods_used' = methods_used \o methods
    /\ pc' = "ocr_guard"
    /\ UNCHANGED <<call, nPages, fileVars, exc, returned, directVars, i, ocrVars,
                   results, histVars, attempts, yielded, appVars>>

\* --------------------------------------- extract_text_with_enhanced_ocr

\* The name under which extract_text_from_pdf records a call at this dpi.
TierName(d) == IF d = HighDpi THEN "High-DPI OCR" ELSE "OCR"

\* KeepBest with >= for >: among equally long texts the latest is kept.
KeepBestLatest(kept, out) ==
    IF ~out.raised /\ out.text # <<>> /\ Len(Strip(out.text)) >= Len(Strip(kept))
    THEN out.text
    ELSE kept

\* One attempt of the inner loop:
\*     try:
\*         strategy_text = pytesseract.image_to_string(processed_image, ...)
\*         if strategy_text and len(strategy_text.strip()) > len(page_text.strip()):
\*             page_text = strategy_text
\*     except:
\*         continue
KeepBest(kept, out) ==
    IF ~out.raised /\ out.text # <<>> /\ Len(Strip(out.text)) > Len(Strip(kept))
    THEN out.text
    ELSE kept

\* AddSection without its test: a blank page gets a section too.
AddSectionAlways(t, idx, page) == t \o PageSection(idx, page)

\*     if page_text.strip():
\*         text += f"--- Page {i+1} ---\n{page_text}\n\n"
AddSection(t, idx, page) == IF IsBlank(page) THEN t ELSE t \o PageSection(idx, page)

\* The function starts: text = "".
EnterOcr(d) ==
    /\ ocr_text' = <<>>
    /\ dpi' = d
    /\ pc' = "ocr_convert"
    /\ invoked' = Append(invoked, TierName(d))

\* images = convert_from_path(pdf_path, dpi=dpi, thread_count=4): the pages
\* are rasterized, or the call raises into `except Exception`, which starts
\* the reduced fallback.
OcrConvert ==
    /\ pc = "ocr_convert"
    /\ \E ok \in BOOLEAN :
        IF ok
        THEN pc' = "ocr_page" /\ i' = 0 /\ failed' = failed /\ raster_dpi' = dpi
        ELSE /\ pc' = "fallback_convert" /\ i' = i /\ raster_dpi' = raster_dpi
             /\ failed' = failed \cup {TierName(dpi)}
    /\ UNCHANGED <<call, nPages, fileVars, exc, returned, extractVars, directVars,
                   ocr_text, dpi, page_text, strategy_idx, config_idx, results,
                   invoked, produced, attempts, inspected, yielded, appVars>>

\* for i, image in enumerate(images): page_text = "" and the first strategy's
\* first configuration is next.  (strategy(image) does not raise: the
\* original image is returned as is, and preprocess_image_for_ocr returns the
\* original image when its own steps raise.)
OcrPageStart ==
    /\ pc = "ocr_page"
    /\ i < nPages
    /\ page_text' = <<>>
    /\ strategy_idx' = 1
    /\ config_idx' = 1
    /\ attempts' = <<>>
    /\ pc' = "ocr_attempt"
    /\ UNCHANGED <<call, nPages, fileVars, exc, returned, extractVars, directVars,
                   i, ocr_text, dpi, results, histVars,
                   raster_dpi, yielded, appVars>>

\* One (strategy, configuration) attempt, and the step to the next one.
OcrAttemptStep(out) ==
    /\ pc = "ocr_attempt"
    /\ page_text' = KeepBest(page_text, out)
    /\ yielded' = Noted(yielded, TierName(dpi), i, out)
    /\ IF config_idx < Len(OcrConfigs)
       THEN config_idx' = config_idx + 1 /\ UNCHANGED <<strategy_idx, pc>>
       ELSE IF strategy_idx < Len(Strategies)
            THEN config_idx' = 1 /\ strategy_idx' = strategy_idx + 1 /\ pc' = pc
            ELSE pc' = "ocr_page_end" /\ UNCHANGED <<strategy_idx, config_idx>>
    /\ UNCHANGED <<call, nPages, fileVars, exc, returned, extractVars, directVars,
                   i, ocr_text, dpi, results, histVars,
                   raster_dpi, appVars>>

OcrAttempt ==
    \E out \in OcrOutcomes : OcrAttemptStep(out) /\ attempts' = attempts

\* The same step, with the attempt's outcome, and the length of its text
\* once stripped, kept in the history.
OcrAttemptObserved ==
    \E out \in OcrOutcomes :
        /\ OcrAttemptStep(out)
        /\ attempts' = Append(attempts, [strategy |-> Strategies[strategy_idx],
                                          config |-> OcrConfigs[config_idx],
                                          raised |-> out.raised,
                                          text |-> out.text,
                                          trimmed |-> Len(Strip(out.text))])

\* After the page's attempts: its section is added if it has text (and the
\* history of the page's attempts ends).
OcrPageEnd ==
    /\ pc = "ocr_page_end"
    /\ ocr_text' = AddSection(ocr_text, i, page_text)
    /\ produced' = [produced EXCEPT ![TierName(dpi)] = AddSection(@, i, page_text)]
    /\ i' = i + 1
    /\ attempts' = <<>>
    /\ pc' = "ocr_page"
    /\ UNCHANGED <<call, nPages, fileVars, exc, returned, extractVars, directVars,
                   dpi, page_text, strategy_idx, config_idx, results, invoked,
                   failed, inspected,
                   raster_dpi, yielded, appVars>>

\* The page loop is exhausted: return text.
OcrPagesDone ==
    /\ pc = "ocr_page"
    /\ i >= nPages
    /\ pc' = "ocr_return"
    /\ UNCHANGED <<call, nPages, fileVars, exc, returned, extractVars, directVars,
                   i, ocrVars, results, histVars, attempts, yielded, appVars>>

\* except Exception: images = convert_from_path(pdf_path, dpi=200), inside
\* a try whose bare `except: pass` ends the fallback.
FallbackConvert ==
    /\ pc = "fallback_convert"
    /\ \E ok \in BOOLEAN :
        IF ok THEN pc' = "fallback_page" /\ i' = 0 /\ raster_dpi' = FallbackDpi
              ELSE pc' = "ocr_return" /\ i' = i /\ raster_dpi' = raster_dpi
    /\ UNCHANGED <<call, nPages, fileVars, exc, returned, extractVars, directVars,
                   ocr_text, dpi, page_text, strategy_idx, config_idx, results,
                   histVars, attempts, yielded, appVars>>

\* One page of the fallback: page_text = pytesseract.image_to_string(image,
\* lang='eng').  The try stands around the whole loop: a page that raises
\* ends the fallback with what earlier pages added.
FallbackPage ==
    /\ pc = "fallback_page"
    /\ i < nPages
    /\ \E out \in OcrOutcomes :
        IF out.raised
        THEN pc' = "ocr_return" /\ UNCHANGED <<ocr_text, produced, i, yielded>>
        ELSE /\ ocr_text' = AddSection(ocr_text, i, out.text)
             /\ yielded' = Noted(yielded, TierName(dpi), i, out)
             /\ produced' = [produced EXCEPT
                              ![TierName(dpi)] = AddSection(@, i, out.text)]
             /\ i' = i + 1
             /\ pc' = pc
    /\ UNCHANGED <<call, nPages, fileVars, exc, returned, extractVars, directVars,
                   dpi, page_text, strategy_idx, config_idx, results, invoked,
                   failed, attempts, inspected,
                   raster_dpi, appVars>>

FallbackPagesDone ==
    /\ pc = "fallback_page"
    /\ i >= nPages
    /\ pc' = "ocr_return"
    /\ UNCHANGED <<call, nPages, fileVars, exc, returned, extractVars, directVars,
                   i, ocrVars, results, histVars, attempts, yielded, appVars>>

\* extract_text_with_enhanced_ocr(pdf_path, dpi=300) called on its own.
CallOcr ==
    /\ pc = "idle"
    /\ call' = "ocr"
    /\ EnterOcr(StandardDpi)
    /\ UNCHANGED <<nPages, fileVars, exc, returned, extractVars, directVars, i,
                   page_text, strategy_idx, config_idx, results, produced,
                   failed, attempts, inspected,
                   raster_dpi, yielded, appVars>>

\* return text; in extract_text_from_pdf the caller's
\*     text = extract_text_with_enhanced_ocr(tmp_path, dpi=...)
OcrReturn ==
    /\ pc = "ocr_return"
    /\ IF call = "extract"
       THEN /\ text' = ocr_text
            /\ pc' = IF dpi = HighDpi THEN "high_record" ELSE "ocr_record"
            /\ returned' = returned
       ELSE /\ text' = text
            /\ pc' = "done"
            /\ returned' = TRUE
    /\ UNCHANGED <<call, nPages, fileVars, exc, methods_used, directVars, i,
                   ocrVars, results, histVars, attempts, yielded, appVars>>

\* ------------------------------------- extract_text_from_pdf: the tiers

\* TierGuard without its test: every tier is attempted.
TierGuardAlways(t) == TRUE

\* `if not text.strip():` before each OCR tier.
TierGuard(t) == IsBlank(t)

\* RecordTier without its test: the tier is recorded whatever it returned.
RecordTierAlways(m, t, name) == Append(m, name)

\*     if text.strip():
\*         methods_used.append(<name>)
RecordTier(m, t, name) == IF IsBlank(t) THEN m ELSE Append(m, name)

\* if not text.strip(): text = extract_text_with_enhanced_ocr(tmp_path, dpi=300)
OcrTierEnter ==
    /\ pc = "ocr_guard"
    /\ TierGuard(text)
    /\ EnterOcr(StandardDpi)
    /\ UNCHANGED <<call, nPages, fileVars, exc, returned, extractVars, directVars,
                   i, page_text, strategy_idx, config_idx, results, produced,
                   failed, attempts, inspected,
                   raster_dpi, yielded, appVars>>

OcrTierSkip ==
    /\ pc = "ocr_guard"
    /\ ~TierGuard(text)
    /\ pc' = "high_guard"
    /\ UNCHANGED <<call, nPages, fileVars, exc, returned, extractVars, directVars,
                   i, ocrVars, results, histVars, attempts, yielded, appVars>>

\* if text.strip(): methods_used.append("OCR")
OcrTierRecord ==
    /\ pc = "ocr_record"
    /\ methods_used' = RecordTier(methods_used, text, "OCR")
    /\ pc' = "high_guard"
    /\ UNCHANGED <<call, nPages, fileVars, exc, returned, text, directVars, i,
                   ocrVars, results, histVars, attempts, yielded, appVars>>

\* if not text.strip(): text = extract_text_with_enhanced_ocr(tmp_path, dpi=400)
HighTierEnter ==
    /\ pc = "high_guard"
    /\ TierGuard(text)
    /\ EnterOcr(HighDpi)
    /\ UNCHANGED <<call, nPages, fileVars, exc, returned, extractVars, directVars,
                   i, page_text, strategy_idx, config_idx, results, produced,
                   failed, attempts, inspected,
                   raster_dpi, yielded, appVars>>

\* The multi-language tier stands inside the same `if`: it is skipped too.
HighTierSkip ==
    /\ pc = "high_guard"
    /\ ~TierGuard(text)
    /\ pc' = "finally"
    /\ UNCHANGED <<call, nPages, fileVars, exc, returned, extractVars, directVars,
                   i, ocrVars, results, histVars, attempts, yielded, appVars>>

\* if text.strip(): methods_used.append("High-DPI OCR")
HighTierRecord ==
    /\ pc = "high_record"
    /\ methods_used' = RecordTier(methods_used, text, "High-DPI OCR")
    /\ pc' = "multi_guard"
    /\ UNCHANGED <<call, nPages, fileVars, exc, returned, text, directVars, i,
                   ocrVars, results, histVars, attempts, yielded, appVars>>

\* if not text.strip(): try: images = convert_from_path(tmp_path, dpi=300)
MultiTierEnter ==
    /\ pc = "multi_guard"
    /\ TierGuard(text)
    /\ pc' = "multi_convert"
    /\ invoked' = Append(invoked, "Multi-language OCR")
    /\ UNCHANGED <<call, nPages, fileVars, exc, returned, extractVars, directVars,
                   i, ocrVars, results, produced, failed, attempts, inspected,
                   yielded, appVars>>

MultiTierSkip ==
    /\ pc = "multi_guard"
    /\ ~TierGuard(text)
    /\ pc' = "finally"
    /\ UNCHANGED <<call, nPages, fileVars, exc, returned, extractVars, directVars,
                   i, ocrVars, results, histVars, attempts, yielded, appVars>>

\* convert_from_path rasterizes, or raises into the outer `except: pass`.
MultiConvert ==
    /\ pc = "multi_convert"
    /\ \E ok \in BOOLEAN :
        IF ok
        THEN pc' = "multi_page" /\ i' = 0 /\ failed' = failed /\ raster_dpi' = StandardDpi
        ELSE /\ pc' = "finally" /\ i' = i /\ raster_dpi' = raster_dpi
             /\ failed' = failed \cup {"Multi-language OCR"}
    /\ UNCHANGED <<call, nPages, fileVars, exc, returned, extractVars, directVars,
                   ocr_text, dpi, page_text, strategy_idx, config_idx, results,
                   invoked, produced, attempts, inspected, yielded, appVars>>

\* One page of the multi-language tier:
\*     try:
\*         page_text = pytesseract.image_to_string(image, lang='eng+fra+deu+spa')
\*         if page_text.strip():
\*             text += f"--- Page {i+1} ---\n{page_text}\n\n"
\*             methods_used.append("Multi-language OCR")
\*     except:
\*         pass
MultiPage ==
    /\ pc = "multi_page"
    /\ i < nPages
    /\ \E out \in OcrOutcomes :
        IF out.raised
        THEN /\ failed' = failed \cup {"Multi-language OCR"}
             /\ UNCHANGED <<text, methods_used, produced, yielded>>
        ELSE /\ text' = AddSection(text, i, out.text)
             /\ yielded' = Noted(yielded, "Multi-language OCR", i, out)
             /\ methods_used' = RecordTier(methods_used, out.text, "Multi-language OCR")
             /\ produced' = [produced EXCEPT
                              !["Multi-language OCR"] = AddSection(@, i, out.text)]
             /\ failed' = failed
    /\ i' = i + 1
    /\ UNCHANGED <<pc, call, nPages, fileVars, exc, returned, directVars, ocrVars,
                   results, invoked, attempts, inspected, appVars>>

MultiPagesDone ==
    /\ pc = "multi_page"
    /\ i >= nPages
    /\ pc' = "finally"
    /\ UNCHANGED <<call, nPages, fileVars, exc, returned, extractVars, directVars,
                   i, ocrVars, results, histVars, attempts, yielded, appVars>>

\* finally: the temporary file is removed.  (No step leads to the `except
\* Exception` of line 208: try_direct_text_extraction, the OCR function and
\* the multi-language tier each catch what their own calls raise.)
Finally ==
    /\ pc = "finally"
    /\ \E outcome \in RemoveOutcomes : RemoveTemp(outcome, "return")
    /\ UNCHANGED <<call, nPages, tmp_created, returned, extractVars, directVars,
                   i, ocrVars, results, histVars, attempts, yielded, appVars>>

\* return text
Return ==
    /\ pc = "return"
    /\ pc' = "done"
    /\ returned' = TRUE
    /\ UNCHANGED <<call, nPages, fileVars, exc, extractVars, directVars, i,
                   ocrVars, results, histVars, attempts, yielded, appVars>>

\* ------------------------------------------------------------ analyze_pdf

\* f"Error analyzing PDF: {str(e)}"
ErrorMessage(cause) == "Error analyzing PDF: " \o cause

\* Analysis with its first two tests exchanged: text before encryption.
AnalysisTextFirst(r) ==
    IF r.has_text THEN "PDF contains text but extraction failed"
    ELSE IF r.is_encrypted THEN "PDF is encrypted/protected"
    ELSE IF r.has_images /\ ~r.has_text THEN "PDF appears to be scanned images only"
    ELSE "PDF structure is unusual - may be empty or malformed"

\* The if/elif chain that generates the analysis.
Analysis(r) ==
    IF r.is_encrypted THEN "PDF is encrypted/protected"
    ELSE IF r.has_text THEN "PDF contains text but extraction failed"
    ELSE IF r.has_images /\ ~r.has_text THEN "PDF appears to be scanned images only"
    ELSE "PDF structure is unusual - may be empty or malformed"

\* What PyMuPDF answers for one page: the call that raises (if any), the
\* page's text, whether get_images() lists an image, and the types of the
\* blocks of get_text("dict") (0: text block, 1: image block).
PageCalls == <<"load_page", "get_text", "get_images", "get_text_dict">>
Inspections ==
    [fail_at : 0..Len(PageCalls), text : PageTexts, images : BOOLEAN,
     blocks : SUBSET {0, 1}]

\* The page raises at one of its calls.
PageRaises(p) == p.fail_at > 0

\* The calls of the loop body that completed before the page raised.
Completed(p, n) == p.fail_at = 0 \/ p.fail_at > n

\* The loop body's assignments to results, as far as the page's calls got.
InspectPage(r, p) ==
    [r EXCEPT
       !.has_text = \/ @
                    \/ Completed(p, 2) /\ HasText(p.text)
                    \/ Completed(p, 4) /\ 0 \in p.blocks,
       !.has_images = \/ @
                      \/ Completed(p, 3) /\ p.images
                      \/ Completed(p, 4) /\ 1 \in p.blocks]

\* analyze_pdf(pdf_file) is called: results is built, the upload is saved
\* and results["file_size"] = os.path.getsize(tmp_path).
CallAnalyze ==
    /\ pc = "idle"
    /\ call' = "analyze"
    /\ \E outcome \in SaveOutcomes, size \in 0..MaxFileSize :
        /\ SaveUpload(outcome, "analyze_open")
        /\ results' = IF outcome = "ok"
                      THEN [InitialResults EXCEPT !.file_size = size]
                      ELSE InitialResults
    /\ UNCHANGED <<nPages, returned, extractVars, directVars, i, ocrVars,
                   histVars, attempts, yielded, appVars>>

\* with fitz.open(tmp_path) as doc: page_count and is_encrypted are set, or
\* the call raises into `except Exception as e`.
AnalyzeOpen ==
    /\ pc = "analyze_open"
    /\ \/ \E enc \in BOOLEAN :
            /\ results' = [results EXCEPT !.page_count = nPages, !.is_encrypted = enc]
            /\ i' = 0
            /\ pc' = "analyze_page"
       \/ \E cause \in Causes :
            /\ results' = [results EXCEPT !.analysis = ErrorMessage(cause)]
            /\ i' = i
            /\ pc' = "analyze_finally"
    /\ UNCHANGED <<call, nPages, fileVars, exc, returned, extractVars, directVars,
                   ocrVars, histVars, attempts, yielded, appVars>>

\* One iteration of `for page_num in range(len(doc))`: the flags are set as
\* far as the page's calls get; a call that raises ends the scan in the
\* except clause, which sets the analysis and nothing else.
AnalyzePage ==
    /\ pc = "analyze_page"
    /\ i < nPages
    /\ \E p \in Inspections :
        IF PageRaises(p)
        THEN \E cause \in Causes :
               /\ results' = [InspectPage(results, p) EXCEPT !.analysis = ErrorMessage(cause)]
               /\ pc' = "analyze_finally"
               /\ i' = i
               /\ inspected' = inspected
        ELSE /\ results' = InspectPage(results, p)
             /\ pc' = pc
             /\ i' = i + 1
             /\ inspected' = Append(inspected, p)
    /\ UNCHANGED <<call, nPages, fileVars, exc, returned, extractVars, directVars,
                   ocrVars, invoked, produced, failed, attempts,
                   yielded, appVars>>

\* After the scan of all pages: generate the analysis.
AnalyzeGenerate ==
    /\ pc = "analyze_page"
    /\ i >= nPages
    /\ results' = [results EXCEPT !.analysis = Analysis(results)]
    /\ pc' = "analyze_finally"
    /\ UNCHANGED <<call, nPages, fileVars, exc, returned, extractVars, directVars,
                   i, ocrVars, histVars, attempts, yielded, appVars>>

\* finally: the temporary file is removed.
AnalyzeFinally ==
    /\ pc = "analyze_finally"
    /\ \E outcome \in RemoveOutcomes : RemoveTemp(outcome, "analyze_return")
    /\ UNCHANGED <<call, nPages, tmp_created, returned, extractVars, directVars,
                   i, ocrVars, results, histVars, attempts, yielded, appVars>>

\* return results
AnalyzeReturn ==
    /\ pc = "analyze_return"
    /\ pc' = "done"
    /\ returned' = TRUE
    /\ UNCHANGED <<call, nPages, fileVars, exc, extractVars, directVars, i,
                   ocrVars, results, histVars, attempts, yielded, appVars>>

\* ---------------------------------------------------------------- app.py

\* Each action below is one run of the script, started by the widget it
\* names.  The functions the run calls are taken by their outcomes: a value
\* returned or an exception.  The calls that only render (st.markdown,
\* st.error, st.expander, ...) return.

\* What the user types into the chat input and into the manual text area.
Prompts == {"What is the document about?"}
ManualTexts == {<<>>, <<" ">>, <<"a">>}

\* analyze_pdf(uploaded_file): the results dict, of which the app reads
\* has_images and has_text, or an exception of the save or of the finally
\* clause.
AnalyzeOutcomes ==
    [raised : {TRUE}, has_images : {FALSE}, has_text : {FALSE}]
        \cup [raised : {FALSE}, has_images : BOOLEAN, has_text : BOOLEAN]

\* extract_images_from_pdf(uploaded_file, max_pages=2): the list of sample
\* images, or an exception of the save or of the finally clause.
ImageOutcomes ==
    {[raised |-> TRUE, images |-> <<>>], [raised |-> FALSE, images |-> <<>>],
     [raised |-> FALSE, images |-> <<"image">>]}

\* extract_text_from_pdf(uploaded_file): the text, blank when no tier read
\* any, or an exception.
ExtractOutcomes == {Raised, Returned(<<>>), Returned(<<"a", "\n">>)}

\* st.session_state.conversation_chain({"question": prompt}): the response's
\* answer, or an exception with its str(e).
ChainOutcomes ==
    {[raised |-> FALSE, said |-> "an answer"],
     [raised |-> TRUE, said |-> "model failed"]}

\* {"role": role, "content": content}
Message(role, content) == [role |-> role, content |-> content]

\* f"Error generating response: {str(e)}"
ResponseError(cause) == "Error generating response: " \o cause

\* BuildChain with processed set as soon as the vector store is built.
BuildChainProcessedEarly(indexed, chained) ==
    /\ vector_store' = IF indexed THEN "FAISS" ELSE vector_store
    /\ conversation_chain' = IF indexed /\ chained THEN "chain" ELSE conversation_chain
    /\ memory' = IF indexed /\ chained THEN 0 ELSE memory
    /\ processed' = indexed

\* The steps Process PDF and Process Manual Text share, inside their try,
\* processed being False when they start:
\*     chunks = chunk_text(text)
\*     embeddings = create_embeddings()
\*     vector_store = create_vector_store(chunks, embeddings)
\*     st.session_state.vector_store = vector_store
\*     st.session_state.conversation_chain = setup_conversational_chain(vector_store)
\*     st.session_state.processed = True
\* indexed: the first three calls returned; chained: so did the fourth (with
\* a new, empty ConversationBufferMemory).  A call that raises leaves the
\* try for `except Exception`, which assigns nothing.
BuildChain(indexed, chained) ==
    /\ vector_store' = IF indexed THEN "FAISS" ELSE vector_store
    /\ conversation_chain' = IF indexed /\ chained THEN "chain" ELSE conversation_chain
    /\ memory' = IF indexed /\ chained THEN 0 ELSE memory
    /\ processed' = (indexed /\ chained)

\* st.file_uploader: the user chooses a file, or removes it.
Upload ==
    /\ uploaded_file' = ~uploaded_file
    /\ UNCHANGED <<pdfVars, processed, chat_history, conversation_chain, vector_store,
                   ocr_used, pdf_analysis, sample_images, memory>>

\* if process_button and uploaded_file: the state is reset, the document is
\* analysed when show_diagnostics is checked, sample images are extracted
\* when the analysis found images and no text (both outside the try: what
\* they raise ends the run), and the text is extracted and indexed inside
\* the try.
ProcessPdf ==
    /\ uploaded_file
    /\ \E show_diagnostics \in BOOLEAN, analysis \in AnalyzeOutcomes,
          sample \in ImageOutcomes, extracted \in ExtractOutcomes,
          indexed \in BOOLEAN, chained \in BOOLEAN :
        LET analysed == show_diagnostics /\ ~analysis.raised
            wanted == analysed /\ analysis.has_images /\ ~analysis.has_text
            ended == \/ show_diagnostics /\ analysis.raised
                     \/ wanted /\ sample.raised
            has_text == ~ended /\ ~extracted.raised /\ ~IsBlank(extracted.text)
        IN  /\ pdf_analysis' =
                IF analysed
                THEN <<[has_images |-> analysis.has_images,
                        has_text |-> analysis.has_text]>>
                ELSE <<>>
            /\ sample_images' = IF wanted /\ ~sample.raised THEN sample.images ELSE <<>>
            /\ BuildChain(has_text /\ indexed, chained)
    /\ UNCHANGED <<pdfVars, chat_history, ocr_used, uploaded_file>>

\* if prompt := st.chat_input(...): without a processed document, a warning;
\* else the user's message is appended, the chain is called and its answer,
\* or the error message of `except Exception`, is appended.  (Calling
\* None raises TypeError.)
ChatPrompt ==
    /\ Len(chat_history) < 2 * MaxPrompts
    /\ \E prompt \in Prompts, response \in ChainOutcomes :
        IF ~processed
        THEN UNCHANGED <<chat_history, memory>>
        ELSE LET answered == conversation_chain # "None" /\ ~response.raised
                 reply == IF answered THEN response.said
                          ELSE ResponseError(response.said)
             IN  /\ chat_history' = Append(Append(chat_history,
                                                  Message("user", prompt)),
                                           Message("assistant", reply))
                 /\ memory' = IF answered THEN memory + 1 ELSE memory
    /\ UNCHANGED <<pdfVars, processed, conversation_chain, vector_store, ocr_used,
                   pdf_analysis, sample_images, uploaded_file>>

\* if not st.session_state.processed and uploaded_file: ...
\*     if st.button("Process Manual Text") and manual_text.strip():
ProcessManualText ==
    /\ ~processed
    /\ uploaded_file
    /\ \E manual_text \in ManualTexts, indexed \in BOOLEAN, chained \in BOOLEAN :
        IF IsBlank(manual_text)
        THEN UNCHANGED <<processed, conversation_chain, vector_store, memory>>
        ELSE BuildChain(indexed, chained)
    /\ UNCHANGED <<pdfVars, chat_history, ocr_used, pdf_analysis, sample_images,
                   uploaded_file>>

\* if st.session_state.chat_history: if st.button("Clear Chat"):
\*     st.session_state.chat_history = []
\*     if st.session_state.conversation_chain:
\*         st.session_state.conversation_chain.memory.clear()
ClearChat ==
    /\ chat_history # <<>>
    /\ chat_history' = <<>>
    /\ memory' = 0
    /\ UNCHANGED <<pdfVars, processed, conversation_chain, vector_store, ocr_used,
                   pdf_analysis, sample_images, uploaded_file>>

\* if st.sidebar.button("Reset Everything"): every key of the session state
\* is deleted and st.rerun() runs the script again, whose first lines set
\* each missing key to its default.
ResetEverything ==
    /\ processed' = FALSE
    /\ chat_history' = <<>>
    /\ conversation_chain' = "None"
    /\ vector_store' = "None"
    /\ ocr_used' = FALSE
    /\ pdf_analysis' = <<>>
    /\ sample_images' = <<>>
    /\ memory' = 0
    /\ UNCHANGED <<pdfVars, uploaded_file>>

\* ---------------------------------------------------------- specifications

\* One call of extract_text_from_pdf or of analyze_pdf on a document.
Next ==
    \/ CallExtract
    \/ DirectEnter
    \/ DirectSkip
    \/ DirectOpen
    \/ DirectPage
    \/ DirectPagesDone
    \/ DirectReturn
    \/ OcrTierEnter
    \/ OcrTierSkip
    \/ OcrConvert
    \/ OcrPageStart
    \/ OcrAttempt
    \/ OcrPageEnd
    \/ OcrPagesDone
    \/ FallbackConvert
    \/ FallbackPage
    \/ FallbackPagesDone
    \/ OcrReturn
    \/ OcrTierRecord
    \/ HighTierEnter
    \/ HighTierSkip
    \/ HighTierRecord
    \/ MultiTierEnter
    \/ MultiTierSkip
    \/ MultiConvert
    \/ MultiPage
    \/ MultiPagesDone
    \/ Finally
    \/ Return
    \/ CallAnalyze
    \/ AnalyzeOpen
    \/ AnalyzePage
    \/ AnalyzeGenerate
    \/ AnalyzeFinally
    \/ AnalyzeReturn

Spec == Init /\ [][Next]_vars

\* One call of extract_text_with_enhanced_ocr on a document of at most
\* MaxOcrPages pages, every attempt's outcome observed.
InitOcr == Init /\ nPages <= MaxOcrPages

NextOcr ==
    \/ CallOcr
    \/ OcrConvert
    \/ OcrPageStart
    \/ OcrAttemptObserved
    \/ OcrPageEnd
    \/ OcrPagesDone
    \/ FallbackConvert
    \/ FallbackPage
    \/ FallbackPagesDone
    \/ OcrReturn

SpecOcr == InitOcr /\ [][NextOcr]_vars

\* One session of the app: the script runs the user's widgets start.  The
\* functions' own variables stay as they are: their calls are taken by
\* their outcomes.
InitApp == Init /\ nPages = 0

NextApp ==
    \/ Upload
    \/ ProcessPdf
    \/ ChatPrompt
    \/ ProcessManualText
    \/ ClearChat
    \/ ResetEverything

SpecApp == InitApp /\ [][NextApp]_vars

\* ------------------------------------------------------------- properties

\* The tier of a backend or OCR tier, in the order of Tiers.
TierOf(name) ==
    CASE name = "OCR" -> 2
      [] name = "High-DPI OCR" -> 3
      [] name = "Multi-language OCR" -> 4
      [] OTHER -> 1

BackendNames == {Backends[b] : b \in 1..NumBackends}
OcrTierNames == <<"OCR", "High-DPI OCR", "Multi-language OCR">>

\* The backend or tier added text that is not blank.
Contributed(name) == ~IsBlank(produced[name])

\* C1: in extract_text_from_pdf the tiers are invoked in the order Direct,
\* OCR, High-DPI OCR, Multi-language OCR without skipping one, each OCR tier
\* at most once, and a tier is invoked only if the caller's text is blank and
\* no backend or tier of an earlier tier has added text that is not blank.
C1_TiersInOrder ==
    call = "extract" =>
        /\ \A j \in 1..Len(invoked) :
            /\ TierOf(invoked[j]) = (IF j = 1 THEN 1 ELSE TierOf(invoked[j - 1]))
               \/ /\ j > 1
                  /\ TierOf(invoked[j]) = TierOf(invoked[j - 1]) + 1
            /\ \A s \in Sources :
                TierOf(s) < TierOf(invoked[j]) => ~Contributed(s)
        /\ \A j, k \in 1..Len(invoked) :
            j # k => invoked[j] # invoked[k]
        /\ pc \in {"ocr_convert", "multi_convert"} => IsBlank(text)

\* C1's case: the direct tier found nothing, the OCR tier read the document,
\* and the call returned without a later tier.
C1_Witness ==
    /\ call = "extract"
    /\ pc = "done"
    /\ invoked = <<"PyMuPDF", "pdfplumber", "PyPDF2", "OCR">>
    /\ ~IsBlank(text)

\* C2: extract_text_from_pdf never raises to its caller: no exception leaves
\* the call, whatever fails inside it.
C2_NeverRaises == call = "extract" => exc = "none" /\ pc # "raised"

\* C3: when a call of extract_text_from_pdf or analyze_pdf has ended, by a
\* return or by an exception, the temporary file it created does not exist.
C3_TempFileRemoved ==
    call \in {"extract", "analyze"} /\ pc \in {"done", "raised"} /\ tmp_created
        => ~tmp_exists

\* C4: when the direct tier finds text, the returned text is the direct
\* tier's and methods_used holds exactly one entry, a backend's name.
C4_OneDirectMethod ==
    call = "extract" /\ pc = "done" /\ ~IsBlank(direct_text) =>
        /\ text = direct_text
        /\ Len(methods_used) = 1
        /\ methods_used[1] \in BackendNames

\* C5: when analyze_pdf reports "Error analyzing PDF: <cause>", page_count,
\* is_encrypted, has_text and has_images still have their initial values.
C5_ErrorLeavesZeroValues ==
    call = "analyze" /\ results.analysis \in {ErrorMessage(c) : c \in Causes} =>
        /\ results.page_count = 0
        /\ ~results.is_encrypted
        /\ ~results.has_text
        /\ ~results.has_images

\* The scan of analyze_pdf ended without a failure and the analysis is set.
Analyzed ==
    /\ call = "analyze"
    /\ pc \in {"analyze_finally", "analyze_return", "done"}
    /\ results.analysis \notin {ErrorMessage(c) : c \in Causes}

\* C6: after a scan without failure, has_text and has_images are the OR over
\* all pages of both detection paths, and the analysis reports encryption
\* first, else text, else images, else an unusual structure; a document of no
\* pages that is not encrypted has page_count 0, no flag and the "unusual"
\* analysis.
C6_AnalysisPriority ==
    Analyzed =>
        /\ Len(inspected) = nPages
        /\ results.page_count = nPages
        /\ results.has_text =
             (\E j \in 1..Len(inspected) :
                 HasText(inspected[j].text) \/ 0 \in inspected[j].blocks)
        /\ results.has_images =
             (\E j \in 1..Len(inspected) :
                 inspected[j].images \/ 1 \in inspected[j].blocks)
        /\ results.is_encrypted
             => results.analysis = "PDF is encrypted/protected"
        /\ ~results.is_encrypted /\ results.has_text
             => results.analysis = "PDF contains text but extraction failed"
        /\ ~results.is_encrypted /\ ~results.has_text /\ results.has_images
             => results.analysis = "PDF appears to be scanned images only"
        /\ ~results.is_encrypted /\ ~results.has_text /\ ~results.has_images
             => results.analysis = "PDF structure is unusual - may be empty or malformed"
        /\ nPages = 0 /\ ~results.is_encrypted
             => /\ results.page_count = 0
                /\ ~results.has_text
                /\ ~results.has_images
                /\ results.analysis = "PDF structure is unusual - may be empty or malformed"

\* C6's case: an encrypted document with text and images on different pages
\* is reported as encrypted.
C6_Witness ==
    /\ Analyzed
    /\ pc = "done"
    /\ nPages = 2
    /\ results.is_encrypted
    /\ results.has_text
    /\ results.has_images
    /\ ~HasText(inspected[1].text) /\ 0 \notin inspected[1].blocks
    /\ ~inspected[2].images /\ 1 \notin inspected[2].blocks
    /\ results.analysis = "PDF is encrypted/protected"

\* The entries of methods_used that name an OCR tier.
IsOcrTierName(name) == name \in {OcrTierNames[k] : k \in 1..Len(OcrTierNames)}
OcrMethodsUsed == SelectSeq(methods_used, IsOcrTierName)

\* C7: after extract, methods_used names each OCR tier that contributed text
\* that is not blank, once, in the order of the tiers, and no other OCR tier.
C7_OneEntryPerTier ==
    call = "extract" /\ pc = "done" =>
        OcrMethodsUsed = SelectSeq(OcrTierNames, Contributed)

\* C8: when try_direct_text_extraction returns, the backends were invoked in
\* the order PyMuPDF, pdfplumber, PyPDF2 without a gap, each after every
\* earlier one added nothing but blank text; the returned text is what the
\* first backend that added text added, and it is empty only if no backend
\* added any.
C8_FirstSuccessWins ==
    call = "extract" /\ pc = "direct_return" =>
        /\ Len(invoked) <= NumBackends
        /\ \A j \in 1..Len(invoked) :
            /\ invoked[j] = Backends[j]
            /\ \A k \in 1..(j - 1) : ~Contributed(Backends[k])
        /\ \A b \in 1..NumBackends :
            Contributed(Backends[b]) /\ (\A k \in 1..(b - 1) : ~Contributed(Backends[k]))
                => direct_text = produced[Backends[b]]
        /\ Cardinality({b \in 1..NumBackends : produced[Backends[b]] # <<>>}) <= 1
        /\ IsBlank(direct_text) =>
            /\ direct_text = <<>>
            /\ \A b \in 1..NumBackends : produced[Backends[b]] = <<>>
            /\ Len(invoked) = NumBackends

\* C8's case: PyMuPDF added nothing, pdfplumber added text, PyPDF2 was not
\* invoked.
C8_Witness ==
    /\ call = "extract"
    /\ pc = "direct_return"
    /\ invoked = <<"PyMuPDF", "pdfplumber">>
    /\ produced["pdfplumber"] = <<"a", "\n", "a", "\n">>
    /\ direct_text = produced["pdfplumber"]

\* C9: a backend in which a call raised has added no text, is not named in
\* methods, and is followed by the next backend.
C9_FailedBackendIsEmpty ==
    call = "extract" =>
        \A b \in 1..NumBackends :
            Backends[b] \in failed =>
                /\ produced[Backends[b]] = <<>>
                /\ \A j \in 1..Len(methods) : methods[j] # Backends[b]
                /\ pc = "direct_return" /\ b < NumBackends
                     => \E j \in 1..Len(invoked) : invoked[j] = Backends[b + 1]

\* The attempts of the current page that did not raise.
NonRaising == {k \in 1..Len(attempts) : ~attempts[k].raised}

\* Attempt k is the earliest of the attempts in ok whose stripped text is
\* the longest.
IsEarliestLongest(k, ok) ==
    /\ k \in ok
    /\ \A j \in ok :
        /\ attempts[j].trimmed <= attempts[k].trimmed
        /\ j < k => attempts[j].trimmed < attempts[k].trimmed

\* All eight attempts of the page were made, in the order of the strategies
\* and, within a strategy, of the configurations.
AllAttemptsInOrder ==
    /\ Len(attempts) = Len(Strategies) * Len(OcrConfigs)
    /\ \A k \in 1..Len(attempts) :
        /\ attempts[k].strategy = Strategies[((k - 1) \div Len(OcrConfigs)) + 1]
        /\ attempts[k].config = OcrConfigs[((k - 1) % Len(OcrConfigs)) + 1]

\* C10 as stated: after a page's attempts, all eight were made in order,
\* whichever raised, and the text kept is the text of the earliest attempt
\* whose stripped text is the longest among those that did not raise.
C10_KeepsEarliestLongest ==
    pc = "ocr_page_end" =>
        /\ AllAttemptsInOrder
        /\ LET ok == NonRaising
           IN  \A k \in ok : IsEarliestLongest(k, ok) => page_text = attempts[k].text

\* C10 as amended: the same, when some attempt that did not raise has text
\* left once stripped; when none has, the text kept is empty.
C10_KeepsEarliestLongestWithText ==
    pc = "ocr_page_end" =>
        /\ AllAttemptsInOrder
        /\ LET ok == NonRaising
           IN  IF \E k \in ok : attempts[k].trimmed > 0
               THEN \E k \in ok :
                       IsEarliestLongest(k, ok) /\ page_text = attempts[k].text
               ELSE page_text = <<>>

\* C10's case: the first attempt raised, two later attempts are equally
\* long once stripped and differ, and the earlier one's text is kept.
C10_Witness ==
    /\ pc = "ocr_page_end"
    /\ attempts[1].raised
    /\ attempts[2].text = <<"a">>
    /\ attempts[3].text = <<"a", " ">>
    /\ \A k \in 4..Len(attempts) : attempts[k].raised \/ attempts[k].trimmed <= 1
    /\ page_text = <<"a">>

\* C11: in the OCR function a failure of the primary path's rasterization
\* starts the reduced fallback, and in the fallback every page is taken in
\* turn: a page whose OCR raises is skipped and the loop moves on to the
\* next page, so that the fallback ends only when no page is left.
C11_FallbackSkipsFailedPage ==
    [][/\ pc = "ocr_convert" /\ pc' # "ocr_page" => pc' = "fallback_convert"
       /\ pc = "fallback_page" /\ i < nPages
            => pc' = "fallback_page" /\ i' = i + 1]_vars

\* The page numbers the history notes for the backends or tiers in names.
PagesYieldedBy(names) == {y.page : y \in {z \in yielded : z.source \in names}}

RECURSIVE Ascending(_)
\* The numbers of S in ascending order.
Ascending(S) ==
    IF S = {} THEN <<>>
    ELSE LET least == CHOOSE m \in S : \A n \in S : m <= n
         IN  <<least>> \o Ascending(S \ {least})

RECURSIVE IsSections(_, _)
\* The text t is one section per page number of `pages`, in that order and
\* nothing else: the header "--- Page N ---" and a newline, a body that is
\* not blank and holds no header, and two newlines.
IsSections(t, pages) ==
    IF pages = <<>> THEN t = <<>>
    ELSE \E n \in 1..Len(t) :
           /\ Len(t) >= n + 6
           /\ SubSeq(t, 1, 4) = <<"--- Page ", ToString(Head(pages)), " ---", "\n">>
           /\ ~IsBlank(SubSeq(t, 5, n + 4))
           /\ \A k \in 5..(n + 4) : t[k] \notin {"--- Page ", " ---"}
           /\ SubSeq(t, n + 5, n + 6) = <<"\n", "\n">>
           /\ IsSections(SubSeq(t, n + 7, Len(t)), Tail(pages))

\* The positions inside extract_text_with_enhanced_ocr.
OcrPositions ==
    {"ocr_convert", "ocr_page", "ocr_attempt", "ocr_page_end", "fallback_convert",
     "fallback_page", "ocr_return"}

\* C12: in an OCR tier a page none of whose attempts returned text that is
\* not blank adds no character, header or body, to the output; the pages
\* for which an attempt did return such text appear in page order, each
\* under the header of its 1-based page number; and the text the call
\* returns is blank only if no library call of any tier returned text that
\* is not blank for any page.
C12_SectionsOfPagesWithText ==
    call = "extract" =>
        /\ pc \in {"ocr_page", "fallback_page", "ocr_return"}
             => IsSections(ocr_text, Ascending(PagesYieldedBy({TierName(dpi)})))
        /\ pc \notin OcrPositions /\ PagesYieldedBy(BackendNames) = {}
             => IsSections(text, Ascending(PagesYieldedBy(
                    {OcrTierNames[k] : k \in 1..Len(OcrTierNames)})))
        /\ pc = "done" /\ IsBlank(text) => yielded = {}

\* C12's case: the OCR tier read nothing on page 1 and text on page 2, and
\* the call returned page 2's section alone, numbered 2.
C12_Witness ==
    /\ call = "extract"
    /\ pc = "done"
    /\ nPages = 2
    /\ yielded = {[source |-> "OCR", page |-> 2]}
    /\ text = <<"--- Page ", "2", " ---", "\n", "a", "\n", "\n">>

\* The positions inside an OCR tier's pair of statements, after
\* `text = extract_text_with_enhanced_ocr(...)` and before the
\* `if text.strip(): methods_used.append(...)` that follows it.
InsideTier == {"ocr_record", "high_record"}

\* C13: in extract_text_from_pdf, before and after each tier and at the
\* return, methods_used is empty exactly when text is blank, and so are
\* methods and text inside try_direct_text_extraction; a document without
\* pages returns the empty text and no method.
C13_MethodsIffText ==
    call = "extract" =>
        /\ pc \notin InsideTier => (methods_used = <<>> <=> IsBlank(text))
        /\ methods = <<>> <=> IsBlank(direct_text)
        /\ pc = "done" /\ nPages = 0 => text = <<>> /\ methods_used = <<>>

\* C13's case: a document without pages went through the four tiers and the
\* call returned the empty text with no method recorded.
C13_Witness ==
    /\ call = "extract"
    /\ pc = "done"
    /\ nPages = 0
    /\ Len(invoked) = NumBackends + Len(OcrTierNames)
    /\ text = <<>>
    /\ methods_used = <<>>

\* C14: in every state of a session, processed implies that
\* conversation_chain and vector_store are both set; and a run of the script
\* that changes chat_history either empties it or, processed being True,
\* appends to it exactly one user message followed by exactly one assistant
\* message.
C14_SessionInvariant ==
    /\ [](processed => conversation_chain # "None" /\ vector_store # "None")
    /\ [][chat_history' # chat_history =>
            \/ chat_history' = <<>>
            \/ /\ processed
               /\ Len(chat_history') = Len(chat_history) + 2
               /\ SubSeq(chat_history', 1, Len(chat_history)) = chat_history
               /\ chat_history'[Len(chat_history) + 1].role = "user"
               /\ chat_history'[Len(chat_history) + 2].role = "assistant"]_vars

\* C14's case: a document was processed and two prompts were accepted, the
\* first answered by the chain and the second by the error message.
C14_Witness ==
    /\ processed
    /\ conversation_chain = "chain"
    /\ vector_store = "FAISS"
    /\ Len(chat_history) = 4
    /\ chat_history[2] = Message("assistant", "an answer")
    /\ chat_history[4] = Message("assistant", ResponseError("model failed"))
    /\ memory = 1

=============================================================================
